---------------------------- MODULE Spec2Model ----------------------------
(***************************************************************************)
(* Model of onap/oom-readiness: ready.py, the Kubernetes readiness gate    *)
(* (Spec), jobContainerReady.py, the gate of a job's sidecar container     *)
(* (JobContainerSpec), and the readiness functions applied on their own to *)
(* every bounded status (PredicateSpec).                                   *)
(*                                                                         *)
(* A run parses its arguments, then polls each requested query (service,   *)
(* container, pod, app, job, mesh-job container) against the cluster until *)
(* the query is ready or its deadline has passed.                          *)
(*                                                                         *)
(* Names are sequences of tokens (<<"api", "-5f9c">> is "api-5f9c"), so    *)
(* that str.startswith is the prefix relation on sequences.                *)
(* Python's None is -1 in the integer fields and "None" in string fields;  *)
(* a list that is None or empty is the empty sequence (both make [0]       *)
(* raise, both make a for loop do nothing).                                *)
(***************************************************************************)
EXTENDS Integers, Sequences, FiniteSets, TLC

VARIABLES
    argv,        \* the parsed command line (main's locals after getopt)
    cluster,     \* what the Kubernetes API answers: pods, controllers, services
    sidecar,     \* "listening" | "absent": the proxy's admin port 127.0.0.1:15020
    pc,          \* "main" | "for" | "while" | "sleep" | "post" | "exit"
    kind,        \* index into KindOrder: the check_* function being run
    idx,         \* index of the current name in that function's list
    timeout,     \* the local variable `timeout` of the running check_* function
    now,         \* time.time(), in seconds
    exitStatus,  \* -1 while running, else the process exit status
    cause,       \* why the process ended
    verdict,     \* what the last predicate evaluation returned
    qstart,      \* time.time() when the current query's loop started
    attempts,    \* predicate evaluations of the current query (up to MaxCount)
    sleeps,      \* sleeps of the current query (up to MaxCount)
    faulted,     \* whether an API failure changed what that evaluation returned
    polled,      \* the queries <<kind name, index>> polled at least once
    found,       \* the queries whose loop ended with `break`
    notified,    \* per query, the number of quitquitquit_post invocations
    posts,       \* the number of HTTP POSTs issued
    sideCarKilled \* what the last quitquitquit_post call returned

vars == <<argv, cluster, sidecar, pc, kind, idx, timeout, now, exitStatus,
          cause, verdict, qstart, attempts, sleeps, faulted, polled,
          found, notified, posts, sideCarKilled>>

-----------------------------------------------------------------------------
(* Bounds of the model *)

\* timeouts are floats (float(arg)): the value t is held as t * Tick
Tick == 10
\* the wall clock when the run starts
StartTime == 2
\* poll loops are followed until the clock passes this
MaxClock == 10
\* an evaluation of a predicate takes 0..MaxLatency seconds of wall clock
MaxLatency == 1
\* the attempt and sleep counters stop counting here
MaxCount == 2
\* replica counts of the statuses the predicates are applied to
MaxReplicas == 2

NoneInt == -1

Min(a, b) == IF a < b THEN a ELSE b

startswith(s, p) ==
    /\ Len(p) <= Len(s)
    /\ SubSeq(s, 1, Len(p)) = p

-----------------------------------------------------------------------------
(* Results of a call: a value, or an exception on its way up *)

Ret(v) == [exc |-> "none", val |-> v]
Raise(e) == [exc |-> e, val |-> FALSE]

\* mutant: no except clause, the ApiException goes up
CatchApi_Propagates(r) == r

\* except ApiException: log, then fall through to `return ready` (False)
CatchApi(r) == IF r.exc = "ApiException" THEN Ret(FALSE) ELSE r

\* the API call `call` on resource `name` of table `tbl` raises ApiException
\* when the API fails (fault) or the resource does not exist (404)
ApiFails(call, fault, name, tbl) == fault = call \/ name \notin DOMAIN tbl

-----------------------------------------------------------------------------
(* Readiness predicates on a status object *)

StatefulSetReady(r) ==
    /\ r.replicas = r.spec_replicas
    /\ r.ready_replicas = r.spec_replicas
    /\ r.observed_generation = r.generation

\* mutant: Python's `or` read as `and` would leave this; here the updated
\* replicas are not looked at
DeploymentReady_UpdatedIgnored(r) ==
    /\ r.unavailable_replicas = NoneInt
    /\ r.replicas = r.spec_replicas
    /\ r.ready_replicas = r.spec_replicas
    /\ r.observed_generation = r.generation

DeploymentReady(r) ==
    /\ r.unavailable_replicas = NoneInt
    /\ (r.updated_replicas = NoneInt \/ r.updated_replicas = r.spec_replicas)
    /\ r.replicas = r.spec_replicas
    /\ r.ready_replicas = r.spec_replicas
    /\ r.observed_generation = r.generation

\* mutant: ready as soon as no more pods are ready than scheduled
DaemonSetReady_AtMost(r) == r.desired_number_scheduled >= r.number_ready

DaemonSetReady(r) == r.desired_number_scheduled = r.number_ready

\* conditions[0] of a status without conditions raises TypeError
JobComplete(r) ==
    IF r.succeeded = 1
    THEN IF r.conditions = <<>>
         THEN Raise("TypeError")
         ELSE Ret(r.conditions[1] = "Complete")
    ELSE Ret(FALSE)

is_job_complete(job_name, c, fault) ==
    IF ApiFails("read_namespaced_job_status", fault, job_name, c.jobs)
    THEN Ret(FALSE)
    ELSE JobComplete(c.jobs[job_name])

wait_for_statefulset_complete(statefulset_name, c, fault) ==
    IF ApiFails("read_namespaced_stateful_set", fault, statefulset_name,
                c.statefulsets)
    THEN Ret(FALSE)
    ELSE Ret(StatefulSetReady(c.statefulsets[statefulset_name]))

wait_for_deployment_complete(deployment_name, c, fault) ==
    IF ApiFails("read_namespaced_deployment", fault, deployment_name,
                c.deployments)
    THEN Ret(FALSE)
    ELSE Ret(DeploymentReady(c.deployments[deployment_name]))

wait_for_daemonset_complete(daemonset_name, c, fault) ==
    IF ApiFails("read_namespaced_daemon_set", fault, daemonset_name,
                c.daemonsets)
    THEN Ret(FALSE)
    ELSE Ret(DaemonSetReady(c.daemonsets[daemonset_name]))

-----------------------------------------------------------------------------
(* Owner resolution *)

\* item.metadata.owner_references[0].name; the result's val is unused, its
\* name field is the owner's name
read_name(item) ==
    IF item.owner_references = <<>>
    THEN [exc |-> "TypeError", name |-> <<>>]
    ELSE [exc |-> "none", name |-> item.owner_references[1].name]

\* mutant: the replica set's own name is taken for the Deployment's
get_deployment_name_Self(replicaset, c, fault) ==
    [exc |-> "none", name |-> replicaset]

get_deployment_name(replicaset, c, fault) ==
    IF ApiFails("read_namespaced_replica_set_status", fault, replicaset,
                c.replicasets)
    THEN [exc |-> "ApiException", name |-> <<>>]
    ELSE read_name(c.replicasets[replicaset])

\* the if/elif chain over owner_references[0].kind
OwnerDispatch(item, name, c, fault) ==
    LET k == item.owner_references[1].kind IN
    CASE k = "StatefulSet" -> wait_for_statefulset_complete(name, c, fault)
      [] k = "ReplicaSet" ->
            LET d == get_deployment_name(name, c, fault) IN
            IF d.exc # "none" THEN Raise(d.exc)
            ELSE wait_for_deployment_complete(d.name, c, fault)
      [] k = "Job" -> is_job_complete(name, c, fault)
      [] k = "DaemonSet" ->
            wait_for_daemonset_complete(item.owner_references[1].name, c, fault)
      [] OTHER -> Ret(FALSE)

is_pod_ready(pod, c, fault) ==
    LET n == read_name(pod) IN
    IF n.exc # "none" THEN Raise(n.exc)
    ELSE OwnerDispatch(pod, n.name, c, fault)


-----------------------------------------------------------------------------
(* Resource location: one function per query kind *)

HasContainer(item, container_name) ==
    \E j \in 1..Len(item.container_statuses) :
        item.container_statuses[j].name = container_name

\* the smallest element of a non-empty set of indices: the first match
First(S) == CHOOSE i \in S : \A j \in S : i <= j

is_ready(container_name, c, fault) ==
    IF fault = "list_namespaced_pod" THEN Ret(FALSE)
    ELSE LET hits == {i \in 1..Len(c.pods) :
                         HasContainer(c.pods[i], container_name)} IN
         IF hits = {} THEN Ret(FALSE)
         ELSE LET item == c.pods[First(hits)]
                  n == read_name(item)
              IN IF n.exc # "none" THEN Raise(n.exc)
                 ELSE CatchApi(OwnerDispatch(item, n.name, c, fault))

\* the loop over response.items from item i on: the value of is_pod_ready
\* is dropped, only an exception leaves the loop
RECURSIVE FetchLoop(_, _, _, _)
FetchLoop(i, pod_name, c, fault) ==
    IF i > Len(c.pods) THEN Ret(FALSE)
    ELSE IF startswith(c.pods[i].name, pod_name)
         THEN LET r == is_pod_ready(c.pods[i], c, fault) IN
              IF r.exc # "none" THEN Raise(r.exc)
              ELSE FetchLoop(i + 1, pod_name, c, fault)
         ELSE FetchLoop(i + 1, pod_name, c, fault)

fetch_pod_and_check_if_ready(pod_name, c, fault) ==
    IF fault = "list_namespaced_pod" THEN Ret(FALSE)
    ELSE CatchApi(FetchLoop(1, pod_name, c, fault))

NOKEY == <<"NOKEY">>

\* dict.get(key, default) on a dict held as a set of <<key, value>> pairs
DictGet(d, key, default) ==
    IF \E p \in d : p[1] = key
    THEN (CHOOSE p \in d : p[1] = key)[2]
    ELSE default

RECURSIVE AppLoop(_, _, _, _)
AppLoop(i, app_name, c, fault) ==
    IF i > Len(c.pods) THEN Ret(FALSE)
    ELSE LET item == c.pods[i] IN
         IF item.labels_none THEN Raise("AttributeError")
         ELSE IF DictGet(item.labels, "app", NOKEY) = app_name
              THEN LET n == read_name(item) IN
                   IF n.exc # "none" THEN Raise(n.exc)
                   ELSE fetch_pod_and_check_if_ready(n.name, c, fault)
              ELSE AppLoop(i + 1, app_name, c, fault)

is_app_ready(app_name, c, fault) ==
    IF fault = "list_namespaced_pod" THEN Ret(FALSE)
    ELSE CatchApi(AppLoop(1, app_name, c, fault))

\* list_namespaced_pod(label_selector=...): the pods carrying every pair
Selected(pods, selector) ==
    SelectSeq(pods, LAMBDA p : ~p.labels_none /\ selector \subseteq p.labels)

EndpointUsable(ep, service_name) ==
    /\ startswith(ep.name, service_name)
    /\ ep.subsets # <<>>
    /\ ep.subsets[1].addresses # <<>>

is_service_ready(service_name, c, fault) ==
    IF ApiFails("read_namespaced_service", fault, service_name, c.services)
    THEN Ret(FALSE)
    ELSE LET svc == c.services[service_name] IN
         IF svc.selector # {}
         THEN IF fault = "list_namespaced_pod" THEN Ret(FALSE)
              ELSE LET pods == Selected(c.pods, svc.selector) IN
                   IF pods = <<>> THEN Ret(FALSE)
                   ELSE LET n == read_name(pods[1]) IN
                        IF n.exc # "none" THEN Raise(n.exc)
                        ELSE CatchApi(is_pod_ready(pods[1], c, fault))
         ELSE IF fault = "list_namespaced_endpoints" THEN Ret(FALSE)
              ELSE LET hits == {i \in 1..Len(c.endpoints) :
                                   EndpointUsable(c.endpoints[i], service_name)}
                   IN IF hits = {} THEN Ret(FALSE)
                      ELSE fetch_pod_and_check_if_ready(
                               c.endpoints[First(hits)].subsets[1].addresses[1],
                               c, fault)

\* every running pod holding the container is visited (no early return):
\* read_name raises on one without owner, else complete is whether any of
\* them reports the container terminated
service_mesh_job_check(container_name, c, fault) ==
    IF fault = "list_namespaced_pod" THEN Ret(FALSE)
    ELSE LET hits == {i \in 1..Len(c.pods) :
                         /\ HasContainer(c.pods[i], container_name)
                         /\ c.pods[i].phase = "Running"} IN
         IF \E i \in hits : c.pods[i].owner_references = <<>>
         THEN Raise("TypeError")
         ELSE Ret(\E i \in hits :
                    \E j \in 1..Len(c.pods[i].container_statuses) :
                       /\ c.pods[i].container_statuses[j].name = container_name
                       /\ c.pods[i].container_statuses[j].terminated # "None")

-----------------------------------------------------------------------------
(* The sidecar shutdown notifier *)

\* mutant: the probe reports the port open whatever listens
check_socket_AlwaysOpen(sc) == TRUE

\* check_socket("127.0.0.1", 15020)
check_socket(sc) == sc = "listening"

\* sc is what the probe of the port finds.  `post` is what requests.post does
\* when it is called: "ok" (a 2xx answer), "notok" (another answer) or
\* "ConnectionError" (raised; the call is outside the try block).  ret is the
\* value returned, posted whether a POST was sent.
quitquitquit_post(sc, post) ==
    IF ~check_socket(sc)
    THEN [exc |-> "none", ret |-> "True", posted |-> FALSE]
    ELSE IF post = "ConnectionError"
         THEN [exc |-> "ConnectionError", ret |-> "None", posted |-> TRUE]
         ELSE [exc |-> "none",
               ret |-> IF post = "ok" THEN "True" ELSE "False",
               posted |-> TRUE]

PostOutcomes == {"ok", "notok", "ConnectionError"}

-----------------------------------------------------------------------------
(* The cluster the run observes *)

DB == <<"db">>
API == <<"api">>
AGENT == <<"agent">>
MIGRATE == <<"migrate">>
EXT == <<"ext">>
BARE == <<"bare">>
\* a name nothing in the cluster bears: reading the job answers 404, no
\* pod, container or app label matches it
GONE == <<"gone">>
\* a service whose selector selects no pod
IDLE == <<"idle">>
\* a service without selector whose endpoints have no address
VOID == <<"void">>
RS == <<"api", "-5f9c">>

Owner(k, n) == <<[kind |-> k, name |-> n]>>

Container(n, t) == [name |-> n, terminated |-> t]

Pod(n, labels, cs, phase, owners) ==
    [name |-> n, labels_none |-> FALSE, labels |-> labels,
     container_statuses |-> cs, phase |-> phase, owner_references |-> owners]

\* the states the job's pod goes through: <<phase, main container state>>
JobPodStates ==
    {<<"Running", "None">>, <<"Running", "Completed">>,
     <<"Succeeded", "Completed">>}

JobPod(st) ==
    Pod(<<"migrate", "-j">>, {},
        <<Container(MIGRATE, st[2]), Container(<<"istio-proxy">>, "None")>>,
        st[1], Owner("Job", MIGRATE))

StatefulSetStatuses ==
    {[spec_replicas |-> 2, replicas |-> 2, ready_replicas |-> r,
      observed_generation |-> 1, generation |-> 1] : r \in {1, 2}}

DeploymentStatuses ==
    {[spec_replicas |-> 2, unavailable_replicas |-> u,
      updated_replicas |-> 2, replicas |-> 2, ready_replicas |-> 2,
      observed_generation |-> 1, generation |-> 1] : u \in {NoneInt, 1}}

DaemonSetStatuses ==
    {[desired_number_scheduled |-> 3, number_ready |-> r] : r \in {2, 3}}

JobStatuses ==
    {[succeeded |-> 0, conditions |-> <<>>],
     [succeeded |-> 1, conditions |-> <<>>],
     [succeeded |-> 1, conditions |-> <<"Complete">>]}

\* a fresh rollout: nothing is ready yet
Cluster0 ==
    [pods |->
        << Pod(<<"db", "-0">>, {<<"app", DB>>}, <<Container(DB, "None")>>,
               "Running", Owner("StatefulSet", DB)),
           Pod(<<"api", "-5f9c", "-x">>, {<<"app", API>>},
               <<Container(API, "None")>>, "Running", Owner("ReplicaSet", RS)),
           Pod(<<"agent", "-x">>, {<<"app", AGENT>>},
               <<Container(AGENT, "None")>>, "Running",
               Owner("DaemonSet", AGENT)),
           JobPod(<<"Running", "None">>),
           \* a pod created by hand: no owner, metadata.labels None
           [Pod(<<"bare">>, {}, <<Container(BARE, "None")>>, "Running", <<>>)
              EXCEPT !.labels_none = TRUE] >>,
     statefulsets |-> (DB :> [spec_replicas |-> 2, replicas |-> 2,
                              ready_replicas |-> 1, observed_generation |-> 1,
                              generation |-> 1]),
     deployments |-> (API :> [spec_replicas |-> 2, unavailable_replicas |-> 1,
                              updated_replicas |-> 2, replicas |-> 2,
                              ready_replicas |-> 2, observed_generation |-> 1,
                              generation |-> 1]) @@
                    \* an unrelated Deployment that bears the replica set's
                    \* name and is ready
                    (RS :> [spec_replicas |-> 1,
                            unavailable_replicas |-> NoneInt,
                            updated_replicas |-> 1, replicas |-> 1,
                            ready_replicas |-> 1, observed_generation |-> 1,
                            generation |-> 1]),
     daemonsets |-> (AGENT :> [desired_number_scheduled |-> 3,
                               number_ready |-> 2]),
     jobs |-> (MIGRATE :> [succeeded |-> 0, conditions |-> <<>>]),
     replicasets |-> (RS :> [owner_references |-> Owner("Deployment", API)]),
     services |-> (DB :> [selector |-> {<<"app", DB>>}]) @@
                  (EXT :> [selector |-> {}]) @@
                  (IDLE :> [selector |-> {<<"app", GONE>>}]) @@
                  (VOID :> [selector |-> {}]),
     endpoints |-> << [name |-> VOID, subsets |-> <<>>],
                      [name |-> EXT,
                       subsets |-> <<[addresses |-> << <<"db", "-0">> >>]>>] >>]

\* the API calls an attempt makes; one of them may fail in an attempt
Faults ==
    {"none", "list_namespaced_pod", "list_namespaced_endpoints",
     "read_namespaced_service", "read_namespaced_job_status",
     "read_namespaced_stateful_set", "read_namespaced_deployment",
     "read_namespaced_daemon_set", "read_namespaced_replica_set_status"}

-----------------------------------------------------------------------------
(* The command line *)

\* mutant: the containers are checked before the services
KindOrder_ContainersFirst ==
    <<"container", "service", "pod", "app", "job", "mesh">>

KindOrder == <<"service", "container", "pod", "app", "job", "mesh">>
Kinds == {KindOrder[i] : i \in 1..Len(KindOrder)}

\* the names a run may pass for each kind
QueryValues ==
    [service |-> {DB, EXT, IDLE, VOID}, container |-> {AGENT, API, BARE, GONE},
     pod |-> {DB, GONE}, app |-> {API, GONE, NOKEY}, job |-> {MIGRATE, GONE},
     mesh |-> {MIGRATE, GONE}]

AllQueries == UNION {{<<k, v>> : v \in QueryValues[k]} : k \in Kinds}

\* the options of a command line in the order given: none, one or two names
Runs ==
    {<<>>} \cup {<<a>> : a \in AllQueries}
           \cup {<<a, b>> : a \in AllQueries, b \in AllQueries}

\* the list main appends the names of kind k to
NamesOf(run, k) ==
    LET sel == SelectSeq(run, LAMBDA q : q[1] = k) IN
    [i \in 1..Len(sel) |-> sel[i][2]]

NameLists == {[k \in Kinds |-> NamesOf(run, k)] : run \in Runs}

\* -t in 1/Tick minutes; -i in seconds, NoneInt when not given
Timeouts == {0, 1}
Intervals == {NoneInt, 3}

-----------------------------------------------------------------------------
(* The poll loops *)

CurKind == KindOrder[kind]
CurNames == argv.names[CurKind]
CurValue == CurNames[idx]
InQuery == pc \in {"for", "while", "sleep"} /\ idx <= Len(CurNames)

Queries(a) ==
    UNION {{<<k, i>> : i \in 1..Len(a.names[k])} : k \in Kinds}

\* the readiness function each check_* loop calls
Check(k, v, c, fault) ==
    CASE k = "service" -> is_service_ready(v, c, fault)
      [] k = "container" -> is_ready(v, c, fault)
      [] k = "pod" -> fetch_pod_and_check_if_ready(v, c, fault)
      [] k = "app" -> is_app_ready(v, c, fault)
      [] k = "job" -> is_job_complete(v, c, fault)
      [] k = "mesh" -> service_mesh_job_check(v, c, fault)

\* the pod is_app_ready takes: the first one whose labels.get('app', "NOKEY")
\* is the query's value, unless the loop met a pod without labels before
AppMatch(app_name, c) ==
    LET hits == {i \in 1..Len(c.pods) :
                    /\ ~c.pods[i].labels_none
                    /\ DictGet(c.pods[i].labels, "app", NOKEY) = app_name}
        unlabelled == {i \in 1..Len(c.pods) : c.pods[i].labels_none}
    IN IF hits = {} \/ \E j \in unlabelled : j < First(hits)
       THEN {}
       ELSE {First(hits)}

\* the API calls is_pod_ready makes for a pod when none of them fails
OwnerLookups(pod, c) ==
    IF pod.owner_references = <<>> THEN {}
    ELSE LET o == pod.owner_references[1] IN
         CASE o.kind = "StatefulSet" -> {"read_namespaced_stateful_set"}
           [] o.kind = "ReplicaSet" ->
                {"read_namespaced_replica_set_status"}
                \cup (IF get_deployment_name(o.name, c, "none").exc = "none"
                      THEN {"read_namespaced_deployment"} ELSE {})
           [] o.kind = "Job" -> {"read_namespaced_job_status"}
           [] o.kind = "DaemonSet" -> {"read_namespaced_daemon_set"}
           [] OTHER -> {}

\* the API calls fetch_pod_and_check_if_ready makes: the list, then those of
\* each matching pod up to the first one is_pod_ready raises on
FetchLookups(pod_name, c) ==
    LET hits == {i \in 1..Len(c.pods) : startswith(c.pods[i].name, pod_name)}
        reached == {i \in hits : \A j \in hits :
                       j < i => is_pod_ready(c.pods[j], c, "none").exc = "none"}
    IN {"list_namespaced_pod"}
       \cup UNION {OwnerLookups(c.pods[i], c) : i \in reached}

\* the API calls one evaluation of the query makes when none of them fails
Lookups(k, v, c) ==
    CASE k = "job" -> {"read_namespaced_job_status"}
      [] k = "mesh" -> {"list_namespaced_pod"}
      [] k = "container" ->
            LET hits == {i \in 1..Len(c.pods) : HasContainer(c.pods[i], v)} IN
            {"list_namespaced_pod"}
            \cup (IF hits = {} THEN {}
                  ELSE OwnerLookups(c.pods[First(hits)], c))
      [] k = "pod" -> FetchLookups(v, c)
      [] k = "app" ->
            LET hits == AppMatch(v, c) IN
            {"list_namespaced_pod"}
            \cup (IF hits = {} \/ read_name(c.pods[First(hits)]).exc # "none"
                  THEN {}
                  ELSE FetchLookups(read_name(c.pods[First(hits)]).name, c))
      [] k = "service" ->
            {"read_namespaced_service"}
            \cup (IF v \notin DOMAIN c.services THEN {}
                  ELSE IF c.services[v].selector # {}
                  THEN {"list_namespaced_pod"}
                       \cup (IF Selected(c.pods, c.services[v].selector) = <<>>
                             THEN {}
                             ELSE OwnerLookups(
                                    Selected(c.pods, c.services[v].selector)[1],
                                    c))
                  ELSE LET eps == {i \in 1..Len(c.endpoints) :
                                      EndpointUsable(c.endpoints[i], v)} IN
                       {"list_namespaced_endpoints"}
                       \cup (IF eps = {} THEN {}
                             ELSE FetchLookups(
                                    c.endpoints[First(eps)].subsets[1]
                                        .addresses[1], c)))

\* timeout = time.time() + timeout * 60
Deadline(t, tmo) == t * Tick + tmo * 60

\* time.time() > timeout
TimedOut(t, tmo) == t * Tick > tmo

\* mutant: the deadline is compared before the verdict is looked at
LoopStep_DeadlineFirst(ready, t, tmo) ==
    IF TimedOut(t, tmo) THEN "exit"
    ELSE IF ready THEN "break"
    ELSE "sleep"

\* mutant: a query past its deadline is given up and the run goes on
LoopStep_SkipOnTimeout(ready, t, tmo) ==
    IF ready \/ TimedOut(t, tmo) THEN "break" ELSE "sleep"

\* one pass of `while True` once the predicate has returned `ready` at time t
LoopStep(ready, t, tmo) ==
    IF ready THEN "break"
    ELSE IF TimedOut(t, tmo) THEN "exit"
    ELSE "sleep"

\* mutant: the notifier is called for a ready query of any kind
Notifies_AnyKind(k, ready) == ready

\* whether the pass calls quitquitquit_post
Notifies(k, ready) == k = "mesh" /\ ready

\* time.sleep(interval) or time.sleep(random.randint(2, 6)); the mesh loop
\* takes no interval
SleepChoices(k, interval) ==
    IF k # "mesh" /\ interval # NoneInt THEN {interval} ELSE 2..6

Count(n) == Min(n + 1, MaxCount)

-----------------------------------------------------------------------------
(* The run *)

Init ==
    /\ argv \in [names : NameLists, timeout : Timeouts, interval : Intervals,
                 parse : {"ok", "help", "error"}]
    /\ cluster = Cluster0
    /\ sidecar = "listening"
    /\ pc = "main"
    /\ kind = 1
    /\ idx = 1
    /\ timeout = argv.timeout
    /\ now = StartTime
    /\ exitStatus = -1
    /\ cause = "running"
    /\ verdict = "none"
    /\ qstart = StartTime
    /\ attempts = 0
    /\ sleeps = 0
    /\ faulted = FALSE
    /\ polled = {}
    /\ found = {}
    /\ notified = [q \in Queries(argv) |-> 0]
    /\ posts = 0
    /\ sideCarKilled = "none"

Exit(status, why) ==
    /\ pc' = "exit"
    /\ exitStatus' = status
    /\ cause' = why

\* main, up to the first check_* call: getopt fails or a value does not
\* convert (exit 2), -h (exit 0), no name at all (exit 2)
Main ==
    /\ pc = "main"
    /\ IF argv.parse = "error" THEN Exit(2, "usage")
       ELSE IF argv.parse = "help" THEN Exit(0, "help")
       ELSE IF \A k \in Kinds : Len(argv.names[k]) = 0 THEN Exit(2, "usage")
       ELSE /\ pc' = "for"
            /\ UNCHANGED <<exitStatus, cause>>
    /\ kind' = IF \E k \in 1..Len(KindOrder) : Len(argv.names[KindOrder[k]]) > 0
               THEN First({k \in 1..Len(KindOrder) :
                             Len(argv.names[KindOrder[k]]) > 0})
               ELSE kind
    /\ UNCHANGED <<argv, cluster, sidecar, idx, timeout, now, verdict,
                   qstart, attempts, sleeps, faulted, polled,
                   found, notified, posts, sideCarKilled>>

\* `for name in names:` takes the next name and sets the deadline
StartQuery ==
    /\ pc = "for"
    /\ idx <= Len(CurNames)
    /\ timeout' = Deadline(now, timeout)
    /\ qstart' = now
    /\ attempts' = 0
    /\ sleeps' = 0
    /\ verdict' = "none"
    /\ pc' = "while"
    /\ UNCHANGED <<argv, cluster, sidecar, kind, idx, now, exitStatus, cause,
                   faulted, polled, found, notified, posts, sideCarKilled>>

\* the kinds after the running one that have a name to check
Later == {k \in kind + 1 .. Len(KindOrder) : Len(argv.names[KindOrder[k]]) > 0}

\* the check_* function returns and main calls the following ones, each with
\* its own timeout; one with an empty list returns at once
NextKind ==
    /\ pc = "for"
    /\ idx > Len(CurNames)
    /\ Later # {}
    /\ kind' = First(Later)
    /\ idx' = 1
    /\ timeout' = argv.timeout
    /\ UNCHANGED <<argv, cluster, sidecar, pc, now, exitStatus, cause, verdict,
                   qstart, attempts, sleeps, faulted, polled, found, notified,
                   posts, sideCarKilled>>

\* the last check_* function returns: main returns, exit status 0
Finish ==
    /\ pc = "for"
    /\ idx > Len(CurNames)
    /\ Later = {}
    /\ Exit(0, "done")
    /\ UNCHANGED <<argv, cluster, sidecar, kind, idx, timeout, now, verdict,
                   qstart, attempts, sleeps, faulted, polled, found, notified,
                   posts, sideCarKilled>>

\* an exception nobody catches ends the interpreter with status 1
Crash(e) ==
    /\ Exit(1, e)
    /\ UNCHANGED <<idx, found>>

\* quitquitquit_post returns n (or raises): `sideCarKilled = ...`, then break
Returned(n, q) ==
    /\ posts' = posts + (IF n.posted THEN 1 ELSE 0)
    /\ IF n.exc # "none"
       THEN Crash(n.exc) /\ UNCHANGED sideCarKilled
       ELSE /\ sideCarKilled' = n.ret
            /\ pc' = "for"
            /\ idx' = idx + 1
            /\ found' = found \cup {q}
            /\ UNCHANGED <<exitStatus, cause>>

\* `if ready is True:` the mesh loop calls quitquitquit_post, which probes the
\* port: closed, it returns at once; open, it goes on to requests.post
Break(ready, q) ==
    IF Notifies(CurKind, ready)
    THEN /\ notified' = [notified EXCEPT ![q] = @ + 1]
         /\ IF check_socket(sidecar)
            THEN /\ pc' = "post"
                 /\ UNCHANGED <<idx, found, exitStatus, cause, posts,
                                sideCarKilled>>
            ELSE Returned(quitquitquit_post(sidecar, "ok"), q)
    ELSE /\ pc' = "for"
         /\ idx' = idx + 1
         /\ found' = found \cup {q}
         /\ UNCHANGED <<exitStatus, cause, notified, posts, sideCarKilled>>

\* the API calls the readiness function of a kind can make
FaultsOf(k) ==
    CASE k = "job" -> {"none", "read_namespaced_job_status"}
      [] k = "mesh" -> {"none", "list_namespaced_pod"}
      [] k = "service" -> Faults
      [] OTHER -> Faults \ {"read_namespaced_service",
                            "list_namespaced_endpoints"}

\* one pass of `while True`, up to the call of time.sleep: evaluate, then
\* break, exit or go to sleep.  The evaluation takes d seconds.
PollAttempt ==
    /\ pc = "while"
    /\ now <= MaxClock
    /\ \E fault \in FaultsOf(CurKind), d \in 0..MaxLatency :
          LET r == Check(CurKind, CurValue, cluster, fault)
              t == now + d
              q == <<CurKind, idx>>
              step == LoopStep(r.val, t, timeout)
          IN /\ now' = t
             /\ polled' = polled \cup {q}
             /\ attempts' = Count(attempts)
             /\ faulted' = (r # Check(CurKind, CurValue, cluster, "none"))
             /\ verdict' = IF r.exc # "none" THEN "Raise"
                           ELSE IF r.val THEN "True" ELSE "False"
             /\ IF r.exc # "none"
                THEN Crash(r.exc) /\ UNCHANGED <<notified, posts, sideCarKilled>>
                ELSE CASE step = "break" -> Break(r.val, q)
                       [] step = "exit" ->
                            /\ Exit(1, "timeout")
                            /\ UNCHANGED <<idx, found, notified, posts, sideCarKilled>>
                       [] step = "sleep" ->
                            /\ pc' = "sleep"
                            /\ UNCHANGED <<idx, exitStatus, cause, found,
                                           notified, posts, sideCarKilled>>
    /\ UNCHANGED <<argv, cluster, sidecar, kind, timeout, qstart, sleeps>>

\* what requests.post can do: with nothing listening the connection is
\* refused
PostResults(sc) == IF check_socket(sc) THEN PostOutcomes ELSE {"ConnectionError"}

\* quitquitquit_post after its probe found the port open: requests.post and
\* the return
Post ==
    /\ pc = "post"
    /\ \E post \in PostResults(sidecar) :
          Returned(quitquitquit_post("listening", post), <<CurKind, idx>>)
    /\ UNCHANGED <<argv, cluster, sidecar, kind, timeout, now, verdict, qstart,
                   attempts, sleeps, faulted, polled, notified>>

\* time.sleep returns after the interval, or after randint(2, 6) seconds
Wake ==
    /\ pc = "sleep"
    /\ \E s \in SleepChoices(CurKind, argv.interval) : now' = now + s
    /\ sleeps' = Count(sleeps)
    /\ pc' = "while"
    /\ UNCHANGED <<argv, cluster, sidecar, kind, idx, timeout, exitStatus,
                   cause, verdict, qstart, attempts, faulted, polled, found,
                   notified, posts, sideCarKilled>>

-----------------------------------------------------------------------------
(* The environment.  A change is followed only while the running query can *)
(* read the changed resource: an earlier change shows the same to it.      *)

\* the controller a pod's readiness is read from
ControllerOf(pod, c) ==
    IF pod.owner_references = <<>> THEN {}
    ELSE LET o == pod.owner_references[1] IN
         IF o.kind # "ReplicaSet" THEN {<<o.kind, o.name>>}
         ELSE IF o.name \in DOMAIN c.replicasets
                 /\ c.replicasets[o.name].owner_references # <<>>
              THEN {<<"Deployment",
                      c.replicasets[o.name].owner_references[1].name>>}
              ELSE {}

\* the pods whose name starts with one of the prefixes
Prefixed(c, prefixes) ==
    {i \in 1..Len(c.pods) : \E p \in prefixes : startswith(c.pods[i].name, p)}

\* the pods the query may resolve to
Located(k, v, c) ==
    CASE k \in {"container", "mesh"} ->
            {i \in 1..Len(c.pods) : HasContainer(c.pods[i], v)}
      [] k = "pod" -> Prefixed(c, {v})
      [] k = "app" ->
            Prefixed(c, {c.pods[i].owner_references[1].name :
                           i \in {j \in 1..Len(c.pods) :
                                    /\ <<"app", v>> \in c.pods[j].labels
                                    /\ c.pods[j].owner_references # <<>>}})
      [] k = "service" ->
            IF v \notin DOMAIN c.services THEN {}
            ELSE IF c.services[v].selector # {}
            THEN {i \in 1..Len(c.pods) :
                     c.services[v].selector \subseteq c.pods[i].labels}
            ELSE Prefixed(c, {c.endpoints[e].subsets[1].addresses[1] :
                                e \in {x \in 1..Len(c.endpoints) :
                                         EndpointUsable(c.endpoints[x], v)}})
      [] OTHER -> {}

\* the resources the running query reads
Watched ==
    IF ~InQuery THEN {}
    ELSE (IF CurKind = "mesh" THEN {}
          ELSE UNION {ControllerOf(cluster.pods[i], cluster) :
                        i \in Located(CurKind, CurValue, cluster)})
         \cup (IF CurKind = "job" THEN {<<"Job", CurValue>>} ELSE {})
         \cup (IF CurKind = "mesh"
               THEN {<<"Pod", cluster.pods[i].name>> :
                       i \in Located(CurKind, CurValue, cluster)}
               ELSE {})

EnvUnchanged ==
    UNCHANGED <<argv, sidecar, pc, kind, idx, timeout, now, exitStatus, cause,
                verdict, qstart, attempts, sleeps, faulted,
                polled, found, notified, posts, sideCarKilled>>

StatefulSetChange ==
    /\ \E n \in DOMAIN cluster.statefulsets, st \in StatefulSetStatuses :
          /\ <<"StatefulSet", n>> \in Watched
          /\ cluster' = [cluster EXCEPT !.statefulsets[n] = st]
    /\ EnvUnchanged

DeploymentChange ==
    /\ \E n \in DOMAIN cluster.deployments, st \in DeploymentStatuses :
          /\ <<"Deployment", n>> \in Watched
          /\ cluster' = [cluster EXCEPT !.deployments[n] = st]
    /\ EnvUnchanged

DaemonSetChange ==
    /\ \E n \in DOMAIN cluster.daemonsets, st \in DaemonSetStatuses :
          /\ <<"DaemonSet", n>> \in Watched
          /\ cluster' = [cluster EXCEPT !.daemonsets[n] = st]
    /\ EnvUnchanged

JobChange ==
    /\ \E n \in DOMAIN cluster.jobs, st \in JobStatuses :
          /\ <<"Job", n>> \in Watched
          /\ cluster' = [cluster EXCEPT !.jobs[n] = st]
    /\ EnvUnchanged

JobPodChange ==
    /\ \E st \in JobPodStates :
          /\ <<"Pod", JobPod(st).name>> \in Watched
          /\ cluster' = [cluster EXCEPT !.pods =
                            [i \in DOMAIN cluster.pods |->
                               IF cluster.pods[i].name = JobPod(st).name
                               THEN JobPod(st) ELSE cluster.pods[i]]]
    /\ EnvUnchanged

\* the proxy exits (its job is over, or it was told to quit)
SidecarExit ==
    /\ InQuery \/ pc = "post"
    /\ CurKind = "mesh"
    /\ sidecar = "listening"
    /\ sidecar' = "absent"
    /\ UNCHANGED <<argv, cluster, pc, kind, idx, timeout, now, exitStatus,
                   cause, verdict, qstart, attempts, sleeps, faulted, polled,
                   found, notified, posts, sideCarKilled>>

Next ==
    \/ Main
    \/ StartQuery
    \/ NextKind
    \/ Finish
    \/ PollAttempt
    \/ Wake
    \/ Post
    \/ StatefulSetChange
    \/ DeploymentChange
    \/ DaemonSetChange
    \/ JobChange
    \/ JobPodChange
    \/ SidecarExit

Spec == Init /\ [][Next]_vars

-----------------------------------------------------------------------------
(* jobContainerReady.py: the gate a job's sidecar container runs.  It polls *)
(* the containers named by -c and tells the proxy to quit when one is done; *)
(* the names given by -j are collected and never looked at.                 *)

\* every pod holding the container is visited, whatever its phase: read_name
\* raises on one without owner, else complete is whether one of them reports
\* the container terminated with reason Completed
is_container_complete(container_name, c, fault) ==
    IF fault = "list_namespaced_pod" THEN Ret(FALSE)
    ELSE LET hits == {i \in 1..Len(c.pods) :
                         HasContainer(c.pods[i], container_name)} IN
         IF \E i \in hits : read_name(c.pods[i]).exc # "none"
         THEN Raise("TypeError")
         ELSE Ret(\E i \in hits :
                    \E j \in 1..Len(c.pods[i].container_statuses) :
                       /\ c.pods[i].container_statuses[j].name = container_name
                       /\ c.pods[i].container_statuses[j].terminated
                             = "Completed")

\* quitquitquit_post of jobContainerReady.py: no probe, requests.post at once
JobContainer_quitquitquit_post(post) ==
    IF post = "ConnectionError"
    THEN [exc |-> "ConnectionError", ret |-> "None", posted |-> TRUE]
    ELSE [exc |-> "none",
          ret |-> IF post = "ok" THEN "True" ELSE "False",
          posted |-> TRUE]

\* the options of a command line: none, one or two of -c and -j
JobContainerRuns ==
    LET opts == {<<"container", MIGRATE>>, <<"container", AGENT>>,
                 <<"job", MIGRATE>>} IN
    {<<>>} \cup {<<a>> : a \in opts} \cup {<<a, b>> : a \in opts, b \in opts}

JobContainerInit ==
    /\ argv \in [names : {[k \in Kinds |-> NamesOf(run, k)] :
                             run \in JobContainerRuns},
                 timeout : Timeouts, interval : {NoneInt},
                 parse : {"ok", "help", "error"}]
    /\ cluster = Cluster0
    /\ sidecar = "listening"
    /\ pc = "main"
    /\ kind = 2
    /\ idx = 1
    /\ timeout = argv.timeout
    /\ now = StartTime
    /\ exitStatus = -1
    /\ cause = "running"
    /\ verdict = "none"
    /\ qstart = StartTime
    /\ attempts = 0
    /\ sleeps = 0
    /\ faulted = FALSE
    /\ polled = {}
    /\ found = {}
    /\ notified = [q \in Queries(argv) |-> 0]
    /\ posts = 0
    /\ sideCarKilled = "none"

\* main, up to the loop over container_names
JobContainerMain ==
    /\ pc = "main"
    /\ IF argv.parse = "error" THEN Exit(2, "usage")
       ELSE IF argv.parse = "help" THEN Exit(0, "help")
       ELSE IF Len(argv.names.container) = 0 /\ Len(argv.names.job) = 0
            THEN Exit(2, "usage")
       ELSE /\ pc' = "for"
            /\ UNCHANGED <<exitStatus, cause>>
    /\ UNCHANGED <<argv, cluster, sidecar, kind, idx, timeout, now, verdict,
                   qstart, attempts, sleeps, faulted, polled, found, notified,
                   posts, sideCarKilled>>

\* one pass of `while True`, up to the call of time.sleep
JobContainerPoll ==
    /\ pc = "while"
    /\ now <= MaxClock
    /\ \E fault \in {"none", "list_namespaced_pod"}, d \in 0..MaxLatency,
          post \in PostResults(sidecar) :
          LET r == is_container_complete(CurValue, cluster, fault)
              t == now + d
              q == <<CurKind, idx>>
              step == LoopStep(r.val, t, timeout)
          IN /\ now' = t
             /\ polled' = polled \cup {q}
             /\ attempts' = Count(attempts)
             /\ faulted' = (r # is_container_complete(CurValue, cluster, "none"))
             /\ verdict' = IF r.exc # "none" THEN "Raise"
                           ELSE IF r.val THEN "True" ELSE "False"
             /\ IF r.exc # "none"
                THEN Crash(r.exc) /\ UNCHANGED <<notified, posts, sideCarKilled>>
                ELSE CASE step = "break" ->
                            /\ notified' = [notified EXCEPT ![q] = @ + 1]
                            /\ Returned(JobContainer_quitquitquit_post(post), q)
                       [] step = "exit" ->
                            /\ Exit(1, "timeout")
                            /\ UNCHANGED <<idx, found, notified, posts,
                                           sideCarKilled>>
                       [] step = "sleep" ->
                            /\ pc' = "sleep"
                            /\ UNCHANGED <<idx, exitStatus, cause, found,
                                           notified, posts, sideCarKilled>>
    /\ UNCHANGED <<argv, cluster, sidecar, kind, timeout, qstart, sleeps>>

\* time.sleep(random.randint(5, 11)) returns
JobContainerWake ==
    /\ pc = "sleep"
    /\ \E s \in 5..11 : now' = now + s
    /\ sleeps' = Count(sleeps)
    /\ pc' = "while"
    /\ UNCHANGED <<argv, cluster, sidecar, kind, idx, timeout, exitStatus,
                   cause, verdict, qstart, attempts, faulted, polled, found,
                   notified, posts, sideCarKilled>>

\* the loop over container_names is over: main returns, exit status 0
JobContainerFinish ==
    /\ pc = "for"
    /\ idx > Len(CurNames)
    /\ Exit(0, "done")
    /\ UNCHANGED <<argv, cluster, sidecar, kind, idx, timeout, now, verdict,
                   qstart, attempts, sleeps, faulted, polled, found, notified,
                   posts, sideCarKilled>>

\* the job's pod moves on while its container is polled
JobContainerPodChange ==
    /\ InQuery
    /\ \E st \in JobPodStates :
          /\ HasContainer(JobPod(st), CurValue)
          /\ cluster' = [cluster EXCEPT !.pods =
                            [i \in DOMAIN cluster.pods |->
                               IF cluster.pods[i].name = JobPod(st).name
                               THEN JobPod(st) ELSE cluster.pods[i]]]
    /\ EnvUnchanged

\* the proxy is not there (any more)
JobContainerSidecarExit ==
    /\ InQuery
    /\ sidecar = "listening"
    /\ sidecar' = "absent"
    /\ UNCHANGED <<argv, cluster, pc, kind, idx, timeout, now, exitStatus,
                   cause, verdict, qstart, attempts, sleeps, faulted, polled,
                   found, notified, posts, sideCarKilled>>

JobContainerNext ==
    \/ JobContainerMain
    \/ StartQuery
    \/ JobContainerPoll
    \/ JobContainerWake
    \/ JobContainerFinish
    \/ JobContainerPodChange
    \/ JobContainerSidecarExit

JobContainerSpec == JobContainerInit /\ [][JobContainerNext]_vars

-----------------------------------------------------------------------------
(* The readiness functions on their own: each is applied once to a cluster  *)
(* in which one resource has a status drawn from all the bounded ones.      *)

\* a count the API reports: unset (None) or a number
Counts == {NoneInt} \cup 0..MaxReplicas
Generations == {1, 2}

StatefulSetInputs ==
    [spec_replicas : 0..MaxReplicas, replicas : 0..MaxReplicas,
     ready_replicas : Counts, observed_generation : Generations,
     generation : Generations]

DeploymentInputs ==
    [spec_replicas : 0..MaxReplicas, unavailable_replicas : {NoneInt, 0, 1},
     updated_replicas : Counts, replicas : 0..MaxReplicas,
     ready_replicas : Counts, observed_generation : Generations,
     generation : Generations]

DaemonSetInputs ==
    [desired_number_scheduled : 0..MaxReplicas, number_ready : 0..MaxReplicas]

\* succeeded: unset, 0, 1 or 2; conditions: None, or one or two of them
JobInputs ==
    [succeeded : {NoneInt, 0, 1, 2},
     conditions : {<<>>} \cup {<<a>> : a \in {"Complete", "Failed"}}
                         \cup {<<a, b>> : a \in {"Complete", "Failed"},
                                          b \in {"Complete", "Failed"}}]

\* a pod holding one container, with or without an owner
PodInputs ==
    {Pod(<<"p">>, {}, <<Container(n, t)>>, ph, o) :
        n \in {MIGRATE, AGENT}, t \in {"None", "Completed", "Error"},
        ph \in {"Pending", "Running", "Succeeded"},
        o \in {Owner("Job", MIGRATE), <<>>}}

\* the namespace holds one or two pods
PodListInputs ==
    {<<a>> : a \in PodInputs} \cup {<<a, b>> : a \in PodInputs, b \in PodInputs}

ClusterInputs ==
    {[Cluster0 EXCEPT !.statefulsets[DB] = st] : st \in StatefulSetInputs}
    \cup {[Cluster0 EXCEPT !.deployments[API] = st] : st \in DeploymentInputs}
    \cup {[Cluster0 EXCEPT !.daemonsets[AGENT] = st] : st \in DaemonSetInputs}
    \cup {[Cluster0 EXCEPT !.jobs[MIGRATE] = st] : st \in JobInputs}
    \cup {[Cluster0 EXCEPT !.pods = ps] : ps \in PodListInputs}

PredicateInit ==
    /\ argv = [names |-> [k \in Kinds |-> <<>>], timeout |-> 0,
               interval |-> NoneInt, parse |-> "ok"]
    /\ cluster \in ClusterInputs
    /\ sidecar = "listening"
    /\ pc = "main"
    /\ kind = 1
    /\ idx = 1
    /\ timeout = 0
    /\ now = StartTime
    /\ exitStatus = -1
    /\ cause = "running"
    /\ verdict = "none"
    /\ qstart = StartTime
    /\ attempts = 0
    /\ sleeps = 0
    /\ faulted = FALSE
    /\ polled = {}
    /\ found = {}
    /\ notified = [q \in {} |-> 0]
    /\ posts = 0
    /\ sideCarKilled = "none"

\* function fn was called and returned r (or raised): verdict holds what it
\* returned, cause the function's name
Applied(fn, r) ==
    /\ cause' = fn
    /\ verdict' = IF r.exc # "none" THEN "Raise"
                  ELSE IF r.val THEN "True" ELSE "False"
    /\ UNCHANGED <<argv, cluster, sidecar, pc, kind, idx, timeout, now,
                   exitStatus, qstart, attempts, sleeps, faulted, polled,
                   found, notified, posts, sideCarKilled>>

ApplyStatefulSet ==
    /\ cause = "running"
    /\ Applied("wait_for_statefulset_complete",
               wait_for_statefulset_complete(DB, cluster, "none"))

ApplyDeployment ==
    /\ cause = "running"
    /\ Applied("wait_for_deployment_complete",
               wait_for_deployment_complete(API, cluster, "none"))

ApplyDaemonSet ==
    /\ cause = "running"
    /\ Applied("wait_for_daemonset_complete",
               wait_for_daemonset_complete(AGENT, cluster, "none"))

ApplyJob ==
    /\ cause = "running"
    /\ Applied("is_job_complete", is_job_complete(MIGRATE, cluster, "none"))

ApplyMeshCheck ==
    /\ cause = "running"
    /\ Applied("service_mesh_job_check",
               service_mesh_job_check(MIGRATE, cluster, "none"))

ApplyContainerComplete ==
    /\ cause = "running"
    /\ Applied("is_container_complete",
               is_container_complete(MIGRATE, cluster, "none"))

PredicateNext ==
    \/ ApplyStatefulSet
    \/ ApplyDeployment
    \/ ApplyDaemonSet
    \/ ApplyJob
    \/ ApplyMeshCheck
    \/ ApplyContainerComplete

PredicateSpec == PredicateInit /\ [][PredicateNext]_vars

-----------------------------------------------------------------------------
(* Properties *)

\* a step that is one pass of a poll loop
PollStep == pc = "while" /\ pc' # "while"

InLoop == pc \in {"while", "sleep"}

\* the deadline the specification gives the running query, in 1/Tick seconds
StatedDeadline == qstart * Tick + argv.timeout * 60

\* the longest sleep between two attempts of the running query
LongestSleep ==
    CHOOSE s \in SleepChoices(CurKind, argv.interval) :
        \A x \in SleepChoices(CurKind, argv.interval) : x <= s

\* C1: the deadline every query's loop compares against is the time its
\* loop started plus timeout_minutes * 60 seconds, timeout_minutes being the
\* timeout given on the command line
C1_DeadlineIsStartPlusTimeout == InLoop => timeout = StatedDeadline

\* C2: a query that is not found ready ends the run no later than one sleep
\* interval after its start + timeout_minutes * 60: its loop never goes to
\* sleep after that deadline, and never starts an attempt more than one sleep
\* after it
C2_LoopEndsOneSleepAfterDeadline ==
    /\ pc = "sleep" => now * Tick <= StatedDeadline
    /\ pc = "while" => now * Tick <= StatedDeadline + LongestSleep * Tick

\* what C1 and C2 say holds of the first query of each kind
FirstOfKindKeepsDeadline ==
    (InLoop /\ idx = 1) =>
        C1_DeadlineIsStartPlusTimeout /\ C2_LoopEndsOneSleepAfterDeadline

\* the controller owning the pod satisfies its readiness predicate
OwnerSatisfied(pod) == is_pod_ready(pod, cluster, "none") = Ret(TRUE)

\* some pod matches the running Pod query (name prefix) or App query (app
\* label) and its owner is ready
MatchedOwnerReady ==
    \E i \in 1..Len(cluster.pods) :
        /\ \/ CurKind = "pod" /\ startswith(cluster.pods[i].name, CurValue)
           \/ CurKind = "app" /\ <<"app", CurValue>> \in cluster.pods[i].labels
        /\ OwnerSatisfied(cluster.pods[i])

\* C3: a poll attempt of a Pod or App query for which a pod matches and the
\* pod's owner satisfies its readiness predicate returns true, and the loop
\* ends with success on that attempt
C3_MatchedReadyPodEndsLoop ==
    [][(PollStep /\ CurKind \in {"pod", "app"} /\ MatchedOwnerReady
          /\ ~faulted')
        => (verdict' = "True" /\ pc' = "for" /\ <<CurKind, idx>> \in found')]_vars

\* the first address of the first subset of the endpoints of the running
\* Service query names a pod whose owner is ready
EndpointOwnerReady ==
    \E e \in 1..Len(cluster.endpoints), i \in 1..Len(cluster.pods) :
        /\ cluster.endpoints[e].name = CurValue
        /\ cluster.endpoints[e].subsets # <<>>
        /\ cluster.endpoints[e].subsets[1].addresses # <<>>
        /\ cluster.pods[i].name = cluster.endpoints[e].subsets[1].addresses[1]
        /\ OwnerSatisfied(cluster.pods[i])

\* C4: a poll attempt of a Service query whose service declares no selector,
\* and whose first endpoint address names a pod with a ready owner, returns
\* true and ends the loop with success
C4_EndpointServiceEndsLoop ==
    [][(PollStep /\ CurKind = "service" /\ CurValue \in DOMAIN cluster.services
          /\ cluster.services[CurValue].selector = {} /\ EndpointOwnerReady
          /\ ~faulted')
        => (verdict' = "True" /\ pc' = "for" /\ <<CurKind, idx>> \in found')]_vars

\* the job of the running Job query reports succeeded = 1 and a first
\* condition of type Complete
JobReportsComplete ==
    /\ CurValue \in DOMAIN cluster.jobs
    /\ cluster.jobs[CurValue].succeeded = 1
    /\ cluster.jobs[CurValue].conditions # <<>>
    /\ cluster.jobs[CurValue].conditions[1] = "Complete"

\* C5: when the job already reports succeeded = 1 and a first condition
\* Complete at the first poll attempt of a Job query (and the status read
\* answers), that attempt ends the loop with success: one evaluation, no
\* sleep, whatever the timeout
C5_CompleteJobFirstAttempt ==
    [][(PollStep /\ CurKind = "job" /\ attempts = 0 /\ JobReportsComplete
          /\ ~faulted')
        => (/\ verdict' = "True"
            /\ pc' = "for"
            /\ <<CurKind, idx>> \in found'
            /\ attempts' = 1
            /\ sleeps' = 0)]_vars

\* a Job query with timeout 0 has ended with success after one evaluation
\* and no sleep
C5_Witness ==
    /\ pc = "for"
    /\ CurKind = "job"
    /\ <<"job", 1>> \in found
    /\ argv.timeout = 0
    /\ attempts = 1
    /\ sleeps = 0

\* the first pod holding the container of the running Container query is
\* owned by a DaemonSet that exists
DaemonSetOfQuery ==
    LET hits == {i \in 1..Len(cluster.pods) :
                    HasContainer(cluster.pods[i], CurValue)} IN
    IF hits # {} /\ cluster.pods[First(hits)].owner_references # <<>>
       /\ cluster.pods[First(hits)].owner_references[1].kind = "DaemonSet"
       /\ cluster.pods[First(hits)].owner_references[1].name
             \in DOMAIN cluster.daemonsets
    THEN {cluster.daemonsets[cluster.pods[First(hits)].owner_references[1].name]}
    ELSE {}

\* C6: for a Container query whose pod is owned by a DaemonSet, an attempt
\* made while number_ready differs from desired_number_scheduled is not ready
\* and the loop goes on (to sleep, or out by its deadline); an attempt that
\* reads them equal ends the loop with success at once.  The verdict depends
\* on the status read in that attempt alone.
C6_DaemonSetPolledFresh ==
    [][(PollStep /\ CurKind = "container")
        => \A ds \in DaemonSetOfQuery :
              /\ ds.number_ready # ds.desired_number_scheduled
                   => /\ verdict' = "False"
                      /\ pc' = "sleep" \/ (pc' = "exit" /\ cause' = "timeout")
              /\ (ds.number_ready = ds.desired_number_scheduled /\ ~faulted')
                   => /\ verdict' = "True"
                      /\ pc' = "for"
                      /\ <<CurKind, idx>> \in found']_vars

\* a DaemonSet-owned container was found ready on a later attempt, after an
\* attempt that was not ready
C6_Witness ==
    /\ pc = "for"
    /\ CurKind = "container"
    /\ <<"container", 1>> \in found
    /\ idx = 2
    /\ argv.names.container[1] = AGENT
    /\ attempts = 2
    /\ sleeps = 1
    /\ ~faulted

\* C7: the run (not asking for help) ends with status 0 only if every query
\* was found ready, with status 1 exactly when a query exceeded its deadline,
\* and with status 2 exactly when the arguments are malformed or name
\* nothing, without any poll attempt
C7_ThreeOutcomes ==
    (pc = "exit" /\ argv.parse # "help") =>
        /\ exitStatus \in {0, 1, 2}
        /\ exitStatus = 0 => found = Queries(argv)
        /\ exitStatus = 1 <=> cause = "timeout"
        /\ exitStatus = 2 <=> (argv.parse = "error" \/ Queries(argv) = {})
        /\ exitStatus = 2 => polled = {}

\* C8: an attempt that is not ready past the deadline the loop compares
\* against ends the run with exit status 1; after that no query is polled,
\* the notifier is not called and nothing else happens
C8_FailFast ==
    [][/\ (PollStep /\ verdict' = "False" /\ TimedOut(now', timeout))
          => (pc' = "exit" /\ exitStatus' = 1 /\ cause' = "timeout")
       /\ cause = "timeout"
          => (exitStatus = 1 /\ UNCHANGED vars)]_vars

\* the run ended by the deadline of its first query with another query left
C8_Witness ==
    /\ cause = "timeout"
    /\ exitStatus = 1
    /\ Cardinality(polled) = 1
    /\ Cardinality(Queries(argv)) = 2

\* the order the specification gives the kinds
StatedOrder == <<"service", "container", "pod", "app", "job", "mesh">>

StatedRank(k) == CHOOSE i \in 1..Len(StatedOrder) : StatedOrder[i] = k

\* query p comes before query q
Ahead(p, q) ==
    \/ StatedRank(p[1]) < StatedRank(q[1])
    \/ p[1] = q[1] /\ p[2] < q[2]

\* C9: a query is polled only after every query ahead of it (services, then
\* containers, pods, apps, jobs, mesh-job containers; within a kind in the
\* order given) has been found ready
C9_SequentialOrder ==
    \A q \in polled : \A p \in Queries(argv) : Ahead(p, q) => p \in found

\* two queries of different kinds were polled
C9_Witness ==
    \E p \in polled, q \in polled : p[1] # q[1]

\* C10: quitquitquit_post is called once for a mesh-job-container query, in
\* the attempt in which service_mesh_job_check first returns true, and in no
\* other step: not before, not when the query times out, not for another kind
C10_NotifiedOnceWhenComplete ==
    [][IF PollStep /\ CurKind = "mesh" /\ verdict' = "True"
       THEN /\ notified[<<CurKind, idx>>] = 0
            /\ notified' = [notified EXCEPT ![<<CurKind, idx>>] = 1]
       ELSE notified' = notified]_vars

\* a mesh-job-container query was notified once, on its second attempt
C10_Witness ==
    /\ pc = "for"
    /\ CurKind = "mesh"
    /\ idx = 2
    /\ notified[<<"mesh", 1>>] = 1
    /\ attempts = 2
    /\ sleeps = 1

\* a pass of the mesh loop whose predicate returned true: the notifier is
\* called
NotifierCalled == PollStep /\ CurKind = "mesh" /\ verdict' = "True"

\* requests.post was called and quitquitquit_post is left (return or raise)
NotifierPosted == pc = "post" /\ pc' # "post"

\* C11: when 127.0.0.1:15020 is not reachable, quitquitquit_post returns true
\* without issuing an HTTP POST, and the run goes on as for a delivered
\* notification: the query is found ready and the process has not exited
C11_ClosedPortReturnsTrue ==
    [][(NotifierCalled /\ sidecar = "absent")
        => /\ posts' = posts
           /\ sideCarKilled' = "True"
           /\ pc' = "for"
           /\ <<CurKind, idx>> \in found'
           /\ exitStatus' = -1]_vars

\* a mesh query was found ready with nothing listening: the notifier
\* returned true and no POST was sent
C11_Witness ==
    /\ sidecar = "absent"
    /\ <<"mesh", 1>> \in found
    /\ notified[<<"mesh", 1>>] = 1
    /\ sideCarKilled = "True"
    /\ posts = 0

\* C12: when the port is reachable quitquitquit_post issues one HTTP POST
\* and returns (true on a success status); no exception of the call leaves
\* the notifier or ends the run
C12_PostFailureIsCaught ==
    [][/\ (NotifierCalled /\ sidecar = "listening")
          => (pc' = "post" /\ posts' = posts)
       /\ NotifierPosted
          => /\ posts' = posts + 1
             /\ sideCarKilled' \in {"True", "False"}
             /\ pc' = "for"
             /\ exitStatus' = -1]_vars

\* C13: once an invocation of the notifier has returned true, a later
\* invocation returns too and the run goes on; if the sidecar has exited,
\* it returns true without a POST, whenever the sidecar exits: before the
\* probe or between the probe and the POST
C13_SecondInvocationHarmless ==
    [][/\ (NotifierCalled /\ sideCarKilled = "True" /\ sidecar = "absent")
          => (posts' = posts /\ sideCarKilled' = "True" /\ pc' = "for")
       /\ (NotifierPosted /\ sideCarKilled = "True")
          => /\ pc' = "for"
             /\ exitStatus' = -1
             /\ sidecar = "absent"
                  => (posts' = posts /\ sideCarKilled' = "True")]_vars

\* C14: in jobContainerReady.py, when the container is found complete and
\* no sidecar listens on the administrative port, the notifier does not fail
\* the run: the loop breaks, the process has not exited, and once the last
\* container is done the exit status is 0
C14_NoSidecarDoesNotFailRun ==
    [][(PollStep /\ verdict' = "True" /\ sidecar = "absent")
        => /\ pc' = "for"
           /\ <<CurKind, idx>> \in found'
           /\ exitStatus' = -1]_vars

\* C15: a lookup that fails in a poll attempt (the API answers with an error,
\* or the resource does not exist) makes the attempt's verdict not ready,
\* whichever lookup of the attempt it is; the loop then sleeps and goes on,
\* or ends by its deadline if that has passed.  The failure neither breaks
\* the loop nor ends the process.
C15_LookupFailureIsNotReady ==
    /\ [](pc = "while" =>
            /\ \A f \in Lookups(CurKind, CurValue, cluster) :
                  Check(CurKind, CurValue, cluster, f) = Ret(FALSE)
            /\ (CurKind = "job" /\ CurValue \notin DOMAIN cluster.jobs)
                  => Check(CurKind, CurValue, cluster, "none") = Ret(FALSE))
    /\ [][(PollStep /\ faulted')
            => /\ verdict' = "False"
               /\ \/ pc' = "sleep" /\ ~TimedOut(now', timeout)
                  \/ pc' = "exit" /\ cause' = "timeout"
                       /\ TimedOut(now', timeout)]_vars

\* an attempt of a Container query was made not ready by a failed lookup, and
\* the loop went to sleep
C15_Witness ==
    /\ pc = "sleep"
    /\ CurKind = "container"
    /\ faulted
    /\ verdict = "False"

\* the pod the running query resolves to has no owner reference
NoOwnerMatched ==
    LET bare(i) == cluster.pods[i].owner_references = <<>>
        holders == {i \in 1..Len(cluster.pods) :
                       HasContainer(cluster.pods[i], CurValue)}
        labelled == {i \in 1..Len(cluster.pods) :
                        <<"app", CurValue>> \in cluster.pods[i].labels}
    IN \/ CurKind = "container" /\ holders # {} /\ bare(First(holders))
       \/ CurKind = "pod"
            /\ \E i \in 1..Len(cluster.pods) :
                  startswith(cluster.pods[i].name, CurValue) /\ bare(i)
       \/ CurKind = "app" /\ labelled # {} /\ bare(First(labelled))
       \/ CurKind = "service"
            /\ CurValue \in DOMAIN cluster.services
            /\ cluster.services[CurValue].selector # {}
            /\ \E i \in 1..Len(cluster.pods) :
                  cluster.services[CurValue].selector
                      \subseteq cluster.pods[i].labels /\ bare(i)

\* C16: a poll attempt of a Container, Pod, App or Service query whose matched
\* pod has zero owner references yields not ready and the loop goes on (or
\* ends by its deadline); the process does not crash
C16_NoOwnerIsNotReady ==
    [][(PollStep /\ NoOwnerMatched /\ ~faulted')
        => /\ verdict' = "False"
           /\ \/ pc' = "sleep"
              \/ pc' = "exit" /\ cause' = "timeout"]_vars

\* the pod's first owner is a replica set that exists and is itself owned by
\* a Deployment that exists
BehindReplicaSet(pod) ==
    /\ pod.owner_references # <<>>
    /\ pod.owner_references[1].kind = "ReplicaSet"
    /\ pod.owner_references[1].name \in DOMAIN cluster.replicasets
    /\ cluster.replicasets[pod.owner_references[1].name].owner_references # <<>>
    /\ cluster.replicasets[pod.owner_references[1].name].owner_references[1].name
          \in DOMAIN cluster.deployments

\* the readiness of the Deployment named by the first owner reference of the
\* pod's replica set
DeploymentBehind(pod) ==
    DeploymentReady(
        cluster.deployments[
            cluster.replicasets[pod.owner_references[1].name]
                .owner_references[1].name])

\* the first pod holding the container of the running Container query
HolderOfQuery ==
    LET hits == {i \in 1..Len(cluster.pods) :
                    HasContainer(cluster.pods[i], CurValue)} IN
    IF hits = {} THEN {} ELSE {cluster.pods[First(hits)]}

\* C17: for a pod whose first owner is a replica set R, the owner resolver's
\* verdict is the Deployment predicate applied to the Deployment named by R's
\* first owner reference, and so is the verdict of a Container query that
\* matches the pod: a ready Deployment bearing R's name changes nothing
C17_OwnerIndirection ==
    /\ [](\A i \in 1..Len(cluster.pods) :
            BehindReplicaSet(cluster.pods[i])
              => is_pod_ready(cluster.pods[i], cluster, "none")
                   = Ret(DeploymentBehind(cluster.pods[i])))
    /\ [][(PollStep /\ CurKind = "container" /\ ~faulted')
            => \A pod \in HolderOfQuery :
                  BehindReplicaSet(pod)
                    => verdict' = IF DeploymentBehind(pod)
                                  THEN "True" ELSE "False"]_vars

\* a Container query whose pod is behind a replica set was not ready while
\* the Deployment bearing the replica set's name was
C17_Witness ==
    /\ pc = "sleep"
    /\ CurKind = "container"
    /\ CurValue = API
    /\ verdict = "False"
    /\ ~faulted
    /\ DeploymentReady(cluster.deployments[RS])

\* what the specification asks of a StatefulSet's status
StatedStatefulSet(r) ==
    /\ r.replicas = r.spec_replicas
    /\ r.ready_replicas = r.spec_replicas
    /\ r.observed_generation = r.generation

\* what the specification asks of a Deployment's status
StatedDeployment(r) ==
    /\ r.unavailable_replicas = NoneInt
    /\ r.updated_replicas = NoneInt \/ r.updated_replicas = r.spec_replicas
    /\ r.replicas = r.spec_replicas
    /\ r.ready_replicas = r.spec_replicas
    /\ r.observed_generation = r.generation

\* what the specification asks of a DaemonSet's status
StatedDaemonSet(r) == r.desired_number_scheduled = r.number_ready

\* C18: for every status over the bounded field values, each controller
\* predicate returns true exactly when all the fields it guards match at
\* once, and false as soon as one of them differs: StatefulSet (replicas,
\* ready replicas, generation), Deployment (no unavailable replicas, updated
\* replicas unset or as desired, replicas, ready replicas, generation),
\* DaemonSet (desired number scheduled = number ready)
C18_NoPartialCredit ==
    /\ cause = "wait_for_statefulset_complete"
         => verdict = IF StatedStatefulSet(cluster.statefulsets[DB])
                      THEN "True" ELSE "False"
    /\ cause = "wait_for_deployment_complete"
         => verdict = IF StatedDeployment(cluster.deployments[API])
                      THEN "True" ELSE "False"
    /\ cause = "wait_for_daemonset_complete"
         => verdict = IF StatedDaemonSet(cluster.daemonsets[AGENT])
                      THEN "True" ELSE "False"

\* the Deployment predicate returned false for a status in which only the
\* updated replicas differ from the desired ones
C18_Witness ==
    /\ cause = "wait_for_deployment_complete"
    /\ verdict = "False"
    /\ LET r == cluster.deployments[API] IN
       /\ r.unavailable_replicas = NoneInt
       /\ r.updated_replicas \notin {NoneInt, r.spec_replicas}
       /\ r.replicas = r.spec_replicas
       /\ r.ready_replicas = r.spec_replicas
       /\ r.observed_generation = r.generation

\* what the specification asks of a job's status
StatedJob(r) ==
    /\ r.succeeded = 1
    /\ r.conditions # <<>>
    /\ r.conditions[1] = "Complete"

\* C19: is_job_complete returns a boolean for every job status and never
\* raises: true exactly when succeeded = 1 and the first condition has type
\* Complete, false otherwise (succeeded = 1 without conditions, succeeded
\* above 1, succeeded unset)
C19_JobCompleteNeverRaises ==
    cause = "is_job_complete"
      => verdict = IF StatedJob(cluster.jobs[MIGRATE]) THEN "True" ELSE "False"

\* what C19 says holds of every status that reports a condition, or whose
\* succeeded count is not 1
JobWithConditionsIsDecided ==
    (cause = "is_job_complete"
       /\ (cluster.jobs[MIGRATE].conditions # <<>>
             \/ cluster.jobs[MIGRATE].succeeded # 1))
      => C19_JobCompleteNeverRaises

\* some pod is Running and reports the container terminated
StatedMeshCheck(c, container_name) ==
    \E i \in 1..Len(c.pods) :
        /\ c.pods[i].phase = "Running"
        /\ \E j \in 1..Len(c.pods[i].container_statuses) :
              /\ c.pods[i].container_statuses[j].name = container_name
              /\ c.pods[i].container_statuses[j].terminated # "None"

\* C20: service_mesh_job_check returns true exactly when some pod of the
\* namespace is in phase Running and has a container status of the queried
\* name that reports a terminated state, whatever the reason; it returns
\* false otherwise (the pods holding the container are in another phase, or
\* the container has not terminated)
C20_MeshCheckRunningAndTerminated ==
    cause = "service_mesh_job_check"
      => verdict = IF StatedMeshCheck(cluster, MIGRATE) THEN "True" ELSE "False"

\* what C20 says holds when every pod has an owner
MeshCheckOfOwnedPods ==
    (cause = "service_mesh_job_check"
       /\ \A i \in 1..Len(cluster.pods) :
             cluster.pods[i].owner_references # <<>>)
      => C20_MeshCheckRunningAndTerminated

\* some pod holds a container of that name that reports a terminated state
\* with reason Completed
StatedContainerComplete(c, container_name) ==
    \E i \in 1..Len(c.pods) :
        \E j \in 1..Len(c.pods[i].container_statuses) :
           /\ c.pods[i].container_statuses[j].name = container_name
           /\ c.pods[i].container_statuses[j].terminated = "Completed"

\* C21: is_container_complete of jobContainerReady.py returns true exactly
\* when a container matched by name reports a terminated state with reason
\* Completed, and false otherwise: the container still runs, it terminated
\* with another reason, or no container has that name
C21_ContainerCompleteIffCompleted ==
    cause = "is_container_complete"
      => verdict = IF StatedContainerComplete(cluster, MIGRATE)
                   THEN "True" ELSE "False"

\* what C21 says holds when every pod has an owner
ContainerCompleteOfOwnedPods ==
    (cause = "is_container_complete"
       /\ \A i \in 1..Len(cluster.pods) :
             cluster.pods[i].owner_references # <<>>)
      => C21_ContainerCompleteIffCompleted

\* C22: whatever the kind of the running query, a sleep between two attempts
\* lasts exactly the configured interval when one is given, and a whole
\* number of seconds from 2 to 6 when none is
C22_SleepIsIntervalOrBand ==
    [][(pc = "sleep" /\ pc' = "while")
        => IF argv.interval # NoneInt
           THEN now' = now + argv.interval
           ELSE now' - now \in 2..6]_vars

\* what C22 says holds of the five loops that take the interval
SleepOfIntervalLoops ==
    [][(pc = "sleep" /\ pc' = "while" /\ CurKind # "mesh")
        => IF argv.interval # NoneInt
           THEN now' = now + argv.interval
           ELSE now' - now \in 2..6]_vars

\* no pod matches the running query: no container of that name, no pod with
\* that prefix or app label, a selector that selects no pod, no endpoint
\* address
NoPodMatches ==
    CASE CurKind \in {"container", "mesh"} ->
            \A i \in 1..Len(cluster.pods) :
                ~HasContainer(cluster.pods[i], CurValue)
      [] CurKind = "pod" ->
            \A i \in 1..Len(cluster.pods) :
                ~startswith(cluster.pods[i].name, CurValue)
      [] CurKind = "app" ->
            \A i \in 1..Len(cluster.pods) :
                <<"app", CurValue>> \notin cluster.pods[i].labels
      [] CurKind = "service" ->
            /\ CurValue \in DOMAIN cluster.services
            /\ IF cluster.services[CurValue].selector # {}
               THEN Selected(cluster.pods, cluster.services[CurValue].selector)
                      = <<>>
               ELSE \A e \in 1..Len(cluster.endpoints) :
                       ~EndpointUsable(cluster.endpoints[e], CurValue)
      [] OTHER -> FALSE

\* the attempt is not ready and the loop goes on: to sleep, or out by the
\* deadline once that has passed
NotReadyAndPolling ==
    /\ verdict' = "False"
    /\ \/ pc' = "sleep" /\ ~TimedOut(now', timeout)
       \/ pc' = "exit" /\ cause' = "timeout" /\ TimedOut(now', timeout)

\* C23: a poll attempt in which no pod matches the query yields not ready,
\* without an error, and the loop keeps polling until its deadline
C23_NoMatchIsNotReady ==
    [][(PollStep /\ NoPodMatches) => NotReadyAndPolling]_vars

\* what C23 says holds of the queries that do not walk the pods' labels
NoMatchOfOtherKinds ==
    [][(PollStep /\ NoPodMatches /\ CurKind # "app")
        => NotReadyAndPolling]_vars

\* C25: a pod that carries no app label never matches an App query: the pod
\* is_app_ready takes, whose owner it resolves, carries the label
C25_UnlabelledPodNeverMatches ==
    (pc = "while" /\ CurKind = "app")
      => \A i \in AppMatch(CurValue, cluster) :
            \E l \in cluster.pods[i].labels : l[1] = "app"

\* C24: in jobContainerReady.py every job named with -j is waited for: the
\* run does not end with success before each of them was polled and found
\* complete
C24_JobNamesAreWaitedFor ==
    (pc = "exit" /\ exitStatus = 0 /\ argv.parse = "ok")
      => \A i \in 1..Len(argv.names.job) :
            <<"job", i>> \in polled /\ <<"job", i>> \in found

\* what C24 says holds of the containers named with -c
ContainerNamesAreWaitedFor ==
    (pc = "exit" /\ exitStatus = 0 /\ argv.parse = "ok")
      => \A i \in 1..Len(argv.names.container) :
            <<"container", i>> \in polled /\ <<"container", i>> \in found

C27_NotifierResultIgnored ==
    [][/\ NotifierCalled
          => (pc' \in {"for", "post"} /\ exitStatus' = -1)
       /\ NotifierPosted
          => /\ pc' = "for"
             /\ <<CurKind, idx>> \in found'
             /\ exitStatus' = -1]_vars

\* what C27 says holds whenever quitquitquit_post returns: true or false,
\* the query is found and the run goes on
NotifierReturnIsIgnored ==
    [][((NotifierCalled \/ NotifierPosted) /\ sideCarKilled' # sideCarKilled)
        => /\ pc' = "for"
           /\ <<CurKind, idx>> \in found'
           /\ exitStatus' = -1]_vars

=============================================================================
